---- MODULE Spec2Model ----
\* Model of scripts/create_proposal_doc.py: get_credentials, parse_markdown,
\* create_document and main.  Text is a sequence of one-character strings.
EXTENDS Integers, Sequences, FiniteSets, TLC

\* ---------------------------------------------------------------------------
\* Bounds
\* ---------------------------------------------------------------------------
\* longest markdown file (in characters) handed to parse_markdown on its own
MaxFileLen == 5
\* longest markdown file (in characters) of a whole run of main
MaxRunFileLen == 3
\* longest segment sequence handed to create_document on its own
MaxSegs == 2
\* longest text (newline included) of a segment handed to create_document
MaxTextLen == 3

\* ---------------------------------------------------------------------------
\* Characters and Python string primitives
\* ---------------------------------------------------------------------------
\* characters of the markdown file
Char == {"#", " ", "*", "-", "a", "\n", "\r", "\f"}

\* the ASCII characters str.isspace() holds of: space, \t, \n, \r, \f, and
\* the controls 0x0b, 0x1c, 0x1d, 0x1e, 0x1f
AsciiWhitespace ==
    {" ", "\t", "\n", "\r", "\f", "", "", "", "", ""}

\* the other characters str.isspace() holds of: U+0085, U+00A0, U+1680, and
\* those a string of this language cannot hold, each written by its code point
UnicodeWhitespace ==
    {"", " ", " ",
     "U+2000", "U+2001", "U+2002", "U+2003", "U+2004", "U+2005", "U+2006",
     "U+2007", "U+2008", "U+2009", "U+200A", "U+2028", "U+2029", "U+202F",
     "U+205F", "U+3000"}

\* characters str.strip() removes
Whitespace == AsciiWhitespace \cup UnicodeWhitespace

None == "None"

RECURSIVE StringsUpTo(_)
StringsUpTo(n) ==
    IF n = 0 THEN {<<>>}
    ELSE LET S == StringsUpTo(n - 1)
         IN  S \cup {Append(s, c) : s \in {t \in S : Len(t) = n - 1}, c \in Char}

\* s[n:]
DropFirst(s, n) == SubSeq(s, n + 1, Len(s))

\* s.startswith(p)
StartsWith(s, p) == Len(s) >= Len(p) /\ SubSeq(s, 1, Len(p)) = p

\* s.endswith(p)
EndsWith(s, p) == Len(s) >= Len(p) /\ SubSeq(s, Len(s) - Len(p) + 1, Len(s)) = p

RECURSIVE LStrip(_)
LStrip(s) ==
    IF s # <<>> /\ Head(s) \in Whitespace THEN LStrip(Tail(s)) ELSE s

RECURSIVE RStrip(_)
RStrip(s) ==
    IF s # <<>> /\ s[Len(s)] \in Whitespace
    THEN RStrip(SubSeq(s, 1, Len(s) - 1)) ELSE s

\* s.strip()
Strip(s) == RStrip(LStrip(s))

\* s.replace(pat, ''): non-overlapping occurrences, scanned left to right
RECURSIVE Replace(_, _)
Replace(s, pat) ==
    IF s = <<>> THEN <<>>
    ELSE IF StartsWith(s, pat) THEN Replace(DropFirst(s, Len(pat)), pat)
    ELSE <<Head(s)>> \o Replace(Tail(s), pat)

\* open(file_path, 'r') reads with newline=None: "\r\n" and "\r" become "\n"
RECURSIVE Translate(_)
Translate(s) ==
    IF s = <<>> THEN <<>>
    ELSE IF Head(s) = "\r"
         THEN <<"\n">> \o Translate(IF Len(s) >= 2 /\ s[2] = "\n"
                                    THEN DropFirst(s, 2) ELSE Tail(s))
    ELSE <<Head(s)>> \o Translate(Tail(s))

\* the text cut after each "\n": each line keeps its newline, the last line
\* may have none
RECURSIVE SplitLines(_)
SplitLines(s) ==
    IF s = <<>> THEN <<>>
    ELSE IF \E i \in 1..Len(s) : s[i] = "\n"
         THEN LET n == CHOOSE i \in 1..Len(s) :
                          s[i] = "\n" /\ \A j \in 1..(i - 1) : s[j] # "\n"
              IN  <<SubSeq(s, 1, n)>> \o SplitLines(DropFirst(s, n))
         ELSE <<s>>

\* f.readlines() on the file opened in text mode
ReadLines(s) == SplitLines(Translate(s))

\* ---------------------------------------------------------------------------
\* parse_markdown
\* ---------------------------------------------------------------------------
Segment(text, style, bold) == [text |-> text, style |-> style, bold |-> bold]

\* LineStyle with the heading markers tested without their trailing space
LineStyle_MarkerOnly(line) ==
    IF StartsWith(line, <<"#">>) THEN "TITLE"
    ELSE IF StartsWith(line, <<"#", "#">>) THEN "HEADING_1"
    ELSE IF StartsWith(line, <<"#", "#", "#">>) THEN "HEADING_2"
    ELSE IF StartsWith(line, <<"-", " ">>) \/ StartsWith(line, <<"*", " ">>)
         THEN "LIST_ITEM"
    ELSE "NORMAL"

\* the style chain of the loop body; line is the stripped, non-empty line
LineStyle(line) ==
    IF StartsWith(line, <<"#", " ">>) THEN "TITLE"
    ELSE IF StartsWith(line, <<"#", "#", " ">>) THEN "HEADING_1"
    ELSE IF StartsWith(line, <<"#", "#", "#", " ">>) THEN "HEADING_2"
    ELSE IF StartsWith(line, <<"-", " ">>) \/ StartsWith(line, <<"*", " ">>)
         THEN "LIST_ITEM"
    ELSE "NORMAL"

\* the content the style chain leaves
LineContent(line) ==
    IF StartsWith(line, <<"#", " ">>) THEN DropFirst(line, 2)
    ELSE IF StartsWith(line, <<"#", "#", " ">>) THEN DropFirst(line, 3)
    ELSE IF StartsWith(line, <<"#", "#", "#", " ">>) THEN DropFirst(line, 4)
    ELSE IF StartsWith(line, <<"-", " ">>) \/ StartsWith(line, <<"*", " ">>)
         THEN <<"\t">> \o DropFirst(line, 2)
    ELSE line

\* is_bold
IsBold(content) ==
    StartsWith(content, <<"*", "*">>) /\ EndsWith(content, <<"*", "*">>)

\* CleanContent without the second replace call
CleanContent_OneReplace(content) ==
    LET c == IF IsBold(content) THEN SubSeq(content, 3, Len(content) - 2)
             ELSE content
    IN  Replace(c, <<"*", "*">>)

\* content[2:-2] when bold, then both replace calls
CleanContent(content) ==
    LET c == IF IsBold(content) THEN SubSeq(content, 3, Len(content) - 2)
             ELSE content
    IN  Replace(Replace(c, <<"*", "*">>), <<"*">>)

\* the segment a non-blank stripped line appends
LineSegment(line) ==
    Segment(CleanContent(LineContent(line)) \o <<"\n">>,
            LineStyle(line),
            IsBold(LineContent(line)))

BlankSegment == Segment(<<"\n">>, "NORMAL", FALSE)

\* one iteration of the loop over lines; st is [segments, current_segment]
ParseStep(st, raw) ==
    LET line == Strip(raw)
    IN  IF line = <<>>
        THEN [segments |->
                 (IF st.current_segment # <<>>
                  THEN st.segments \o st.current_segment ELSE st.segments)
                 \o <<BlankSegment>>,
              current_segment |-> <<>>]
        ELSE [segments |-> Append(st.segments, LineSegment(line)),
              current_segment |-> st.current_segment]

RECURSIVE ParseLoop(_, _)
ParseLoop(st, lines) ==
    IF lines = <<>> THEN st
    ELSE ParseLoop(ParseStep(st, Head(lines)), Tail(lines))

\* parse_markdown(file_path), on the content of the file
parse_markdown(content) ==
    ParseLoop([segments |-> <<>>, current_segment |-> <<>>],
              ReadLines(content)).segments

\* ---------------------------------------------------------------------------
\* State
\* ---------------------------------------------------------------------------
VARIABLES
    pc,               \* position in the run
    entry,            \* the function the run started in
    token_json,       \* token.json: <<>> when absent, else <<credentials>>
    token_json0,      \* token.json as the run found it
    credentials_json, \* whether credentials.json exists
    creds,            \* get_credentials' creds: <<>> for None, else <<credentials>>
    md_file,          \* content of the markdown file
    segments,         \* parse_markdown's result, create_document's content_segments
    doc_id,           \* create_document's doc_id
    requests,         \* create_document's requests
    current_index,    \* create_document's current_index
    pos,              \* number of segments the loop of create_document has taken
    remote_doc,       \* text of the remote document, <<>> while there is none
    calls,            \* calls made to the identity provider, token.json and the API
    out,              \* lines printed
    exc,              \* the exception that ended the run, None if none
    retval            \* create_document's return value, "unset" until it returns

vars == <<pc, entry, token_json, token_json0, credentials_json, creds, md_file,
          segments, doc_id, requests, current_index, pos, remote_doc, calls,
          out, exc, retval>>

authVars == <<token_json, token_json0, credentials_json, creds>>
buildVars == <<doc_id, requests, current_index, pos, remote_doc, retval>>

DOCUMENT_TITLE == "GigYYC Strategic Business Plan"

\* identifiers the API may give a new document
DocIds == {"docA", "docB"}

Styles == {"TITLE", "HEADING_1", "HEADING_2", "NORMAL", "LIST_ITEM"}

\* credentials as the code reads them: valid, expired, refresh_token
Credentials(id, valid, expired, refresh) ==
    [id |-> id, valid |-> valid, expired |-> expired, refresh_token |-> refresh]

\* what token.json may hold at the start: valid credentials are not expired
CachedTokens ==
    {c \in {Credentials("cached", v, e, r) :
                v \in BOOLEAN, e \in BOOLEAN, r \in BOOLEAN} : ~(c.valid /\ c.expired)}

TokenFiles == {<<>>} \cup {<<c>> : c \in CachedTokens}

\* creds.refresh(Request()) on success
Refreshed == Credentials("refreshed", TRUE, FALSE, TRUE)

\* flow.run_local_server(port=0) on success
Authorized == Credentials("authorized", TRUE, FALSE, TRUE)

Raise(e) ==
    /\ pc' = "raised"
    /\ exc' = e

\* ---------------------------------------------------------------------------
\* get_credentials
\* ---------------------------------------------------------------------------
\* creds = None; load token.json when it exists
gc_load ==
    /\ pc = "gc_load"
    /\ creds' = token_json
    /\ pc' = "gc_check"
    /\ UNCHANGED <<entry, token_json, token_json0, credentials_json, md_file,
                   segments, buildVars, calls, out, exc>>

\* not creds or not creds.valid
NeedsLogin(c) == c = <<>> \/ ~c[1].valid

\* creds and creds.expired and creds.refresh_token
CanRefresh(c) == c # <<>> /\ c[1].expired /\ c[1].refresh_token

MissingCredentialsMessage ==
    <<<<"ERROR: credentials.json not found.", "">>,
      <<"Please download your OAuth 2.0 Client credentials from the Google Cloud Console", "">>,
      <<"and save them as 'credentials.json' in this directory.", "">>>>

\* gc_check with the save outside the branch: valid credentials are saved too
gc_check_AlwaysSave ==
    /\ pc = "gc_check"
    /\ IF ~NeedsLogin(creds)
       THEN /\ pc' = "gc_save"
            /\ UNCHANGED <<creds, out>>
       ELSE IF CanRefresh(creds)
       THEN /\ pc' = "gc_refresh"
            /\ UNCHANGED <<creds, out>>
       ELSE IF ~credentials_json
       THEN /\ out' = out \o MissingCredentialsMessage
            /\ creds' = <<>>
            /\ pc' = "main_check"
       ELSE /\ pc' = "gc_flow"
            /\ UNCHANGED <<creds, out>>
    /\ UNCHANGED <<entry, token_json, token_json0, credentials_json, md_file,
                   segments, buildVars, calls, exc>>

\* the branch on the loaded credentials
gc_check ==
    /\ pc = "gc_check"
    /\ IF ~NeedsLogin(creds)
       THEN /\ pc' = "gc_return"
            /\ UNCHANGED <<creds, out>>
       ELSE IF CanRefresh(creds)
       THEN /\ pc' = "gc_refresh"
            /\ UNCHANGED <<creds, out>>
       ELSE IF ~credentials_json
       THEN /\ out' = out \o MissingCredentialsMessage
            /\ creds' = <<>>
            /\ pc' = "main_check"
       ELSE /\ pc' = "gc_flow"
            /\ UNCHANGED <<creds, out>>
    /\ UNCHANGED <<entry, token_json, token_json0, credentials_json, md_file,
                   segments, buildVars, calls, exc>>

\* gc_refresh with a failed refresh falling through to the interactive flow
gc_refresh_FallThrough ==
    /\ pc = "gc_refresh"
    /\ calls' = Append(calls, "refresh")
    /\ \/ /\ creds' = <<Refreshed>>
          /\ pc' = "gc_save"
       \/ /\ pc' = "gc_flow"
          /\ UNCHANGED creds
    /\ UNCHANGED <<entry, token_json, token_json0, credentials_json, md_file,
                   segments, buildVars, out, exc>>

\* creds.refresh(Request()): refreshes creds in place, or raises
gc_refresh ==
    /\ pc = "gc_refresh"
    /\ calls' = Append(calls, "refresh")
    /\ \/ /\ creds' = <<Refreshed>>
          /\ pc' = "gc_save"
          /\ UNCHANGED exc
       \/ /\ Raise("RefreshError")
          /\ UNCHANGED creds
    /\ UNCHANGED <<entry, token_json, token_json0, credentials_json, md_file,
                   segments, buildVars, out>>

\* InstalledAppFlow.from_client_secrets_file(...).run_local_server(port=0)
gc_flow ==
    /\ pc = "gc_flow"
    /\ calls' = Append(calls, "run_local_server")
    /\ \/ /\ creds' = <<Authorized>>
          /\ pc' = "gc_save"
          /\ UNCHANGED exc
       \/ /\ Raise("FlowError")
          /\ UNCHANGED creds
    /\ UNCHANGED <<entry, token_json, token_json0, credentials_json, md_file,
                   segments, buildVars, out>>

\* with open('token.json', 'w') as token: token.write(creds.to_json())
gc_save ==
    /\ pc = "gc_save"
    /\ token_json' = creds
    /\ calls' = Append(calls, "write_token")
    /\ pc' = "gc_return"
    /\ UNCHANGED <<entry, token_json0, credentials_json, creds, md_file,
                   segments, buildVars, out, exc>>

\* return creds
gc_return ==
    /\ pc = "gc_return"
    /\ pc' = "main_check"
    /\ UNCHANGED <<entry, authVars, md_file, segments, buildVars, calls, out, exc>>

\* main_check without the test of creds
main_check_NoGuard ==
    /\ pc = "main_check"
    /\ pc' = "parse"
    /\ UNCHANGED <<entry, authVars, md_file, segments, buildVars, calls, out, exc>>

\* ---------------------------------------------------------------------------
\* main
\* ---------------------------------------------------------------------------
\* if not creds: return; else build the service
main_check ==
    /\ pc = "main_check"
    /\ pc' = IF creds = <<>> THEN "done" ELSE "parse"
    /\ UNCHANGED <<entry, authVars, md_file, segments, buildVars, calls, out, exc>>

\* segments = parse_markdown(MD_FILE_PATH)
parse ==
    /\ pc = "parse"
    /\ segments' = parse_markdown(md_file)
    /\ pc' = IF entry = "parse_markdown" THEN "done" ELSE "cd_create"
    /\ UNCHANGED <<entry, authVars, md_file, buildVars, calls, out, exc>>

\* ---------------------------------------------------------------------------
\* create_document
\* ---------------------------------------------------------------------------
InsertText(text) == [op |-> "insertText", text |-> text]

UpdateParagraphStyle(start_idx, end_idx, p_style) ==
    [op |-> "updateParagraphStyle", startIndex |-> start_idx,
     endIndex |-> end_idx, namedStyleType |-> p_style]

UpdateTextStyle(start_idx, end_idx) ==
    [op |-> "updateTextStyle", startIndex |-> start_idx,
     endIndex |-> end_idx, bold |-> TRUE]

RangeOps == {"updateParagraphStyle", "updateTextStyle"}

\* p_style
NamedStyle(style) ==
    IF style = "TITLE" THEN "TITLE"
    ELSE IF style = "HEADING_1" THEN "HEADING_1"
    ELSE IF style = "HEADING_2" THEN "HEADING_2"
    ELSE "NORMAL_TEXT"

\* end_idx = current_index + len(text) - 1
EndIdx(index, text) == index + Len(text) - 1

\* the requests one iteration of the loop over content_segments appends
SegmentRequests(segment, index) ==
    <<InsertText(segment.text)>>
    \o (IF segment.style # "NORMAL" /\ segment.style # "LIST_ITEM"
        THEN <<UpdateParagraphStyle(index, EndIdx(index, segment.text),
                                    NamedStyle(segment.style))>>
        ELSE <<>>)
    \o (IF segment.bold
        THEN <<UpdateTextStyle(index, EndIdx(index, segment.text))>>
        ELSE <<>>)

\* Advance leaving the newline of the text out of the count
Advance_SkipNewline(index, text) == index + Len(text) - 1

\* current_index += len(text)
Advance(index, text) == index + Len(text)

\* CreatedLines without the line that reports the identifier
CreatedLines_NoId(title, id) ==
    <<<<"Created document with title: ", title>>>>

\* the lines printed once the document exists
CreatedLines(title, id) ==
    <<<<"Created document with title: ", title>>, <<"Document ID: ", id>>>>

\* the lines printed once the batch is applied
BatchLines(id) ==
    <<<<"Content inserted and formatted.", "">>,
      <<"View your document here: https://docs.google.com/document/d/", id>>>>

\* a new document: its body is the final newline
NewDocument == <<"\n">>

\* the API applying one request: insertText at endOfSegmentLocation puts the text
\* before the final newline of the body; the style requests leave the text alone
ApplyRequest(doc, r) ==
    IF r.op = "insertText"
    THEN SubSeq(doc, 1, Len(doc) - 1) \o r.text \o <<"\n">>
    ELSE doc

RECURSIVE ApplyRequests(_, _)
ApplyRequests(doc, rs) ==
    IF rs = <<>> THEN doc
    ELSE ApplyRequests(ApplyRequest(doc, Head(rs)), Tail(rs))

\* service.documents().create(body={'title': title}).execute(), the prints,
\* requests = [], current_index = 1
cd_create ==
    /\ pc = "cd_create"
    /\ calls' = Append(calls, "documents.create")
    /\ \/ /\ \E id \in DocIds :
                /\ doc_id' = id
                /\ out' = out \o CreatedLines(DOCUMENT_TITLE, id)
          /\ remote_doc' = NewDocument
          /\ requests' = <<>>
          /\ current_index' = 1
          /\ pos' = 0
          /\ pc' = "cd_loop"
          /\ UNCHANGED exc
       \/ /\ Raise("HttpError")
          /\ UNCHANGED <<doc_id, out, remote_doc, requests, current_index, pos>>
    /\ UNCHANGED <<entry, authVars, md_file, segments, retval>>

\* one iteration of: for segment in content_segments
cd_loop ==
    /\ pc = "cd_loop"
    /\ pos < Len(segments)
    /\ LET segment == segments[pos + 1]
       IN  /\ requests' = requests \o SegmentRequests(segment, current_index)
           /\ current_index' = Advance(current_index, segment.text)
    /\ pos' = pos + 1
    /\ UNCHANGED <<pc, entry, authVars, md_file, segments, doc_id, remote_doc,
                   calls, out, exc, retval>>

\* SubmitsBatch without the test of the request list
SubmitsBatch_Always(rs) == TRUE

\* if requests:
SubmitsBatch(rs) == rs # <<>>

\* cd_batch swallowing a rejected batch
cd_batch_Swallow ==
    /\ pc = "cd_loop"
    /\ pos = Len(segments)
    /\ IF SubmitsBatch(requests)
       THEN /\ calls' = Append(calls, "documents.batchUpdate")
            /\ \/ /\ remote_doc' = ApplyRequests(remote_doc, requests)
                  /\ out' = out \o BatchLines(doc_id)
               \/ UNCHANGED <<remote_doc, out>>
            /\ retval' = None
            /\ pc' = "done"
            /\ UNCHANGED exc
       ELSE /\ retval' = None
            /\ pc' = "done"
            /\ UNCHANGED <<calls, remote_doc, out, exc>>
    /\ UNCHANGED <<entry, authVars, md_file, segments, doc_id, requests,
                   current_index, pos>>

\* the batchUpdate call when there are requests, then the implicit return
cd_batch ==
    /\ pc = "cd_loop"
    /\ pos = Len(segments)
    /\ IF SubmitsBatch(requests)
       THEN /\ calls' = Append(calls, "documents.batchUpdate")
            /\ \/ /\ remote_doc' = ApplyRequests(remote_doc, requests)
                  /\ out' = out \o BatchLines(doc_id)
                  /\ retval' = None
                  /\ pc' = "done"
                  /\ UNCHANGED exc
               \/ /\ Raise("HttpError")
                  /\ UNCHANGED <<remote_doc, out, retval>>
       ELSE /\ retval' = None
            /\ pc' = "done"
            /\ UNCHANGED <<calls, remote_doc, out, exc>>
    /\ UNCHANGED <<entry, authVars, md_file, segments, doc_id, requests,
                   current_index, pos>>

\* ---------------------------------------------------------------------------
\* Specifications
\* ---------------------------------------------------------------------------
InitLocals ==
    /\ doc_id = None
    /\ requests = <<>>
    /\ current_index = 1
    /\ pos = 0
    /\ remote_doc = <<>>
    /\ calls = <<>>
    /\ out = <<>>
    /\ exc = None
    /\ retval = "unset"

\* a run of main
Init ==
    /\ pc = "gc_load"
    /\ entry = "main"
    /\ token_json \in TokenFiles
    /\ token_json0 = token_json
    /\ credentials_json \in BOOLEAN
    /\ creds = <<>>
    /\ md_file \in StringsUpTo(MaxRunFileLen)
    /\ segments = <<>>
    /\ InitLocals

Next ==
    \/ gc_load
    \/ gc_check
    \/ gc_refresh
    \/ gc_flow
    \/ gc_save
    \/ gc_return
    \/ main_check
    \/ parse
    \/ cd_create
    \/ cd_loop
    \/ cd_batch

Spec == Init /\ [][Next]_vars

\* parse_markdown called on its own
InitParse ==
    /\ pc = "parse"
    /\ entry = "parse_markdown"
    /\ token_json = <<>>
    /\ token_json0 = <<>>
    /\ credentials_json = FALSE
    /\ creds = <<>>
    /\ md_file \in StringsUpTo(MaxFileLen)
    /\ segments = <<>>
    /\ InitLocals

NextParse == parse

SpecParse == InitParse /\ [][NextParse]_vars

\* texts of 0 .. MaxTextLen - 1 characters and the newline
Texts == {[i \in 1..n |-> IF i = n THEN "\n" ELSE "a"] : n \in 1..MaxTextLen}

Segments == {Segment(t, s, b) : t \in Texts, s \in Styles, b \in BOOLEAN}

RECURSIVE SegmentSeqs(_)
SegmentSeqs(n) ==
    IF n = 0 THEN {<<>>}
    ELSE LET S == SegmentSeqs(n - 1)
         IN  S \cup {Append(q, g) : q \in {t \in S : Len(t) = n - 1}, g \in Segments}

\* create_document called on its own with any segment sequence
InitBuild ==
    /\ pc = "cd_create"
    /\ entry = "create_document"
    /\ token_json = <<Authorized>>
    /\ token_json0 = <<Authorized>>
    /\ credentials_json = TRUE
    /\ creds = <<Authorized>>
    /\ md_file = <<>>
    /\ segments \in SegmentSeqs(MaxSegs)
    /\ InitLocals

NextBuild ==
    \/ cd_create
    \/ cd_loop
    \/ cd_batch

SpecBuild == InitBuild /\ [][NextBuild]_vars

\* ---------------------------------------------------------------------------
\* Vocabulary of the properties
\* ---------------------------------------------------------------------------
RECURSIVE Count(_, _)
Count(q, x) ==
    IF q = <<>> THEN 0
    ELSE (IF Head(q) = x THEN 1 ELSE 0) + Count(Tail(q), x)

Called(x) == Count(calls, x) > 0

Printed(l) == \E i \in 1..Len(out) : out[i] = l

\* s without the character c
RemoveChar(s, c) == SelectSeq(s, LAMBDA x : x # c)

RECURSIVE Flatten(_)
Flatten(q) == IF q = <<>> THEN <<>> ELSE Head(q) \o Flatten(Tail(q))

TextsOf(segs) == [i \in 1..Len(segs) |-> segs[i].text]

\* total length of the texts of the first k segments
RECURSIVE TotalLen(_, _)
TotalLen(segs, k) ==
    IF k = 0 THEN 0 ELSE TotalLen(segs, k - 1) + Len(segs[k].text)

\* the lines of the markdown file, each stripped as the loop strips it
StrippedLines == LET ls == ReadLines(md_file) IN [i \in 1..Len(ls) |-> Strip(ls[i])]

\* the markdown prefix of a stripped line, longest heading marker first
PrefixOf(line) ==
    IF StartsWith(line, <<"#", "#", "#", " ">>) THEN <<"#", "#", "#", " ">>
    ELSE IF StartsWith(line, <<"#", "#", " ">>) THEN <<"#", "#", " ">>
    ELSE IF StartsWith(line, <<"#", " ">>) THEN <<"#", " ">>
    ELSE IF StartsWith(line, <<"-", " ">>) THEN <<"-", " ">>
    ELSE IF StartsWith(line, <<"*", " ">>) THEN <<"*", " ">>
    ELSE <<>>

StyleOfPrefix(p) ==
    IF p = <<"#", "#", "#", " ">> THEN "HEADING_2"
    ELSE IF p = <<"#", "#", " ">> THEN "HEADING_1"
    ELSE IF p = <<"#", " ">> THEN "TITLE"
    ELSE IF p = <<"-", " ">> \/ p = <<"*", " ">> THEN "LIST_ITEM"
    ELSE "NORMAL"

\* a stripped line with its prefix removed, a list item indented by one tab
Unprefixed(line) ==
    LET p == PrefixOf(line)
    IN  (IF StyleOfPrefix(p) = "LIST_ITEM" THEN <<"\t">> ELSE <<>>)
        \o DropFirst(line, Len(p))

\* get_credentials has returned to main
PastAuth ==
    \/ pc \in {"main_check", "parse", "cd_create", "cd_loop", "done"}
    \/ pc = "raised" /\ exc = "HttpError"

\* the interactive flow is the only way to a token
RequiresInteractive(tf) ==
    \/ tf = <<>>
    \/ ~tf[1].valid /\ ~(tf[1].expired /\ tf[1].refresh_token)

\* ---------------------------------------------------------------------------
\* parse_markdown: C9, C10 (specification SpecParse)
\* ---------------------------------------------------------------------------
\* C9: parse_markdown yields one segment per line, and every non-blank line,
\* taken as the loop strips it, gets the style of its longest matching prefix,
\* '### ' before '## ' before '# ' before the list markers, NORMAL otherwise;
\* its text is the line without that prefix (a list item behind one tab),
\* without asterisks, and newline-terminated.
C9_LongestPrefixStyle ==
    pc = "done" =>
        /\ Len(segments) = Len(StrippedLines)
        /\ \A i \in 1..Len(StrippedLines) :
              LET line == StrippedLines[i]
              IN  line # <<>> =>
                    /\ segments[i].style = StyleOfPrefix(PrefixOf(line))
                    /\ segments[i].text =
                           RemoveChar(Unprefixed(line), "*") \o <<"\n">>

\* a '### ' line has been parsed to a HEADING_2 segment
C9_Witness ==
    /\ pc = "done"
    /\ \E i \in 1..Len(StrippedLines) :
          /\ StartsWith(StrippedLines[i], <<"#", "#", "#", " ">>)
          /\ segments[i] = Segment(<<"a", "\n">>, "HEADING_2", FALSE)

\* C10 as stated: the texts of the segments, concatenated in order, are the
\* content of the file with each line trimmed of trailing whitespace, stripped
\* of its emphasis markers and newline-terminated.
C10_Original ==
    pc = "done" =>
        Flatten(TextsOf(segments))
          = Flatten([i \in 1..Len(ReadLines(md_file)) |->
                       RemoveChar(RStrip(ReadLines(md_file)[i]), "*") \o <<"\n">>])

\* C10 as amended: the texts of the segments, concatenated in order, are the
\* content of the file with each line trimmed of leading and trailing
\* whitespace, relieved of its heading marker or its list marker replaced by a
\* tab, stripped of every asterisk and newline-terminated.
C10_Amended ==
    pc = "done" =>
        Flatten(TextsOf(segments))
          = Flatten([i \in 1..Len(StrippedLines) |->
                       RemoveChar(Unprefixed(StrippedLines[i]), "*") \o <<"\n">>])

\* a list item behind a form feed, holding an emphasis marker and ended by a
\* carriage return, has been parsed
C10_Witness ==
    /\ pc = "done"
    /\ md_file = <<"\f", "*", " ", "*", "\r">>
    /\ Flatten(TextsOf(segments)) = <<"\t", "\n">>

\* ---------------------------------------------------------------------------
\* create_document on any segment sequence: C2, C7, C8 (specification SpecBuild)
\* ---------------------------------------------------------------------------
\* the segment the i-th request belongs to: the number of inserts up to it
SegmentOfRequest(i) ==
    Len(SelectSeq(SubSeq(requests, 1, i), LAMBDA r : r.op = "insertText"))

\* the remote document as it stands once the first i requests are applied
DocAsOf(i) == ApplyRequests(NewDocument, SubSeq(requests, 1, i))

\* C2: when segment k is processed the cursor is 1 plus the total length of the
\* texts before it, and every range emitted for segment k is
\* [cursor, cursor + len(text_k) - 1): it covers text_k without its newline in
\* the document as it stands after the segment's insert, and ends within it.
C2_CursorAndRanges ==
    /\ current_index = 1 + TotalLen(segments, pos)
    /\ \A i \in 1..Len(requests) :
          requests[i].op \in RangeOps =>
              LET k == SegmentOfRequest(i)
                  start == 1 + TotalLen(segments, k - 1)
                  text == segments[k].text
              IN  /\ k \in 1..pos
                  /\ requests[i].startIndex = start
                  /\ requests[i].endIndex = start + Len(text) - 1
                  /\ requests[i].endIndex <= Len(DocAsOf(i))
                  /\ SubSeq(DocAsOf(i), requests[i].startIndex,
                            requests[i].endIndex - 1) \o <<"\n">> = text

\* a three-character TITLE then a second segment: range [1, 3), cursor 4
C2_Witness ==
    /\ pc = "cd_loop"
    /\ pos = 1
    /\ Len(segments) = 2
    /\ segments[1] = Segment(<<"a", "a", "\n">>, "TITLE", FALSE)
    /\ requests = <<InsertText(<<"a", "a", "\n">>),
                    UpdateParagraphStyle(1, 3, "TITLE")>>
    /\ current_index = 4

\* C7 as stated: on success create_document returns the identifier of the
\* created document to its caller.
C7_Original == retval # "unset" => retval = doc_id

\* C7 as amended: on success create_document returns None; the identifier of
\* the created document is reported on standard output only.
C7_Amended ==
    retval # "unset" =>
        /\ retval = None
        /\ doc_id \in DocIds
        /\ Printed(<<"Document ID: ", doc_id>>)

\* create_document has returned after an accepted batch
C7_Witness ==
    /\ pc = "done"
    /\ retval = None
    /\ calls = <<"documents.create", "documents.batchUpdate">>
    /\ doc_id = "docB"

\* create_document is past its loop: it returned, or its batch was rejected
PastLoop ==
    \/ pc = "done"
    \/ pc = "raised" /\ doc_id # None

\* C8: past the loop the batch-update call has been made exactly when the
\* segment sequence is non-empty, and at most once; the inserts among the
\* requests are the texts of the segments taken so far, one each and in order;
\* with zero segments the run is over after the create call alone, and an
\* accepted batch leaves the document holding all the texts.
C8_BatchIffSegments ==
    /\ Count(calls, "documents.batchUpdate") <= 1
    /\ PastLoop => (Called("documents.batchUpdate") <=> segments # <<>>)
    /\ (PastLoop /\ segments = <<>>) =>
          pc = "done" /\ retval = None /\ calls = <<"documents.create">>
    /\ LET inserts == SelectSeq(requests, LAMBDA r : r.op = "insertText")
       IN  /\ Len(inserts) = pos
           /\ \A k \in 1..pos : inserts[k] = InsertText(segments[k].text)
    /\ (pc = "done" /\ segments # <<>>) =>
          /\ pos = Len(segments)
          /\ remote_doc = Flatten(TextsOf(segments)) \o <<"\n">>

\* create_document has returned on zero segments without a batch call
C8_Witness ==
    /\ pc = "done"
    /\ segments = <<>>
    /\ calls = <<"documents.create">>
    /\ remote_doc = NewDocument

\* ---------------------------------------------------------------------------
\* A run of main: C1, C3, C4, C5, C6 (specification Spec)
\* ---------------------------------------------------------------------------
\* C1: every range-based request emitted for the segments parse_markdown
\* returns has startIndex < endIndex.
C1_RangesNonEmpty ==
    \A i \in 1..Len(requests) :
        requests[i].op \in RangeOps =>
            requests[i].startIndex < requests[i].endIndex

\* C3 as stated: a failed refresh does not end the run with the refresh error
\* (the run goes on to the interactive flow), and a successful refresh is
\* persisted and returned.
C3_Original ==
    /\ ~(pc = "raised" /\ exc = "RefreshError")
    /\ (pc = "main_check" /\ Called("refresh")) =>
           creds = <<Refreshed>> /\ token_json = creds

\* C3 as amended: a refresh is attempted only for a persisted token that is
\* expired and carries a refresh value; when it fails the refresh error ends
\* the run: no interactive flow follows, token.json and creds are as found and
\* nothing else is called; when it succeeds the refreshed token is persisted
\* and returned.
C3_Amended ==
    /\ Called("refresh") =>
          /\ token_json0 # <<>>
          /\ ~token_json0[1].valid
          /\ token_json0[1].expired /\ token_json0[1].refresh_token
          /\ ~Called("run_local_server")
    /\ exc = "RefreshError" =>
          /\ pc = "raised"
          /\ calls = <<"refresh">>
          /\ token_json = token_json0
          /\ creds = token_json0
    /\ (PastAuth /\ Called("refresh")) =>
          /\ creds = <<Refreshed>>
          /\ token_json = creds
          /\ SubSeq(calls, 1, 2) = <<"refresh", "write_token">>

\* the refresh exchange has failed and ended the run
C3_Witness ==
    /\ pc = "raised"
    /\ exc = "RefreshError"
    /\ token_json0 = <<Credentials("cached", FALSE, TRUE, TRUE)>>

\* C4: token.json is written exactly when a token was just obtained from a
\* successful refresh or interactive flow, and then holds that token; a valid
\* persisted token is returned as found with no refresh, no flow and no
\* write; when no token is obtained token.json is as found.
C4_TokenWrites ==
    /\ Count(calls, "write_token") <= 1
    /\ Called("write_token") =>
          /\ creds \in {<<Refreshed>>, <<Authorized>>}
          /\ token_json = creds
    /\ ~Called("write_token") => token_json = token_json0
    /\ PastAuth =>
          (Called("write_token")
               <=> (creds # <<>> /\ creds[1].id \in {"refreshed", "authorized"}))
    /\ (PastAuth /\ token_json0 # <<>> /\ token_json0[1].valid) =>
          /\ creds = token_json0
          /\ token_json = token_json0
          /\ ~Called("refresh")
          /\ ~Called("run_local_server")
          /\ ~Called("write_token")
    /\ ((PastAuth /\ creds = <<>>) \/ exc \in {"RefreshError", "FlowError"}) =>
          token_json = token_json0

\* a valid persisted token has been returned to main
C4_Witness ==
    /\ pc = "main_check"
    /\ token_json0 = <<Credentials("cached", TRUE, FALSE, TRUE)>>
    /\ creds = token_json0
    /\ calls = <<>>

\* C5: when the interactive flow is the only way to a token and
\* credentials.json is absent, get_credentials returns None and the run ends
\* with the guidance printed and no call at all: no refresh, no flow, no
\* write of token.json, no create-document and no batch-update call.
C5_MissingClientConfig ==
    (RequiresInteractive(token_json0) /\ ~credentials_json) =>
        /\ calls = <<>>
        /\ token_json = token_json0
        /\ remote_doc = <<>>
        /\ exc = None
        /\ pc \in {"gc_load", "gc_check", "main_check", "done"}
        /\ pc \in {"main_check", "done"} =>
              creds = <<>> /\ out = MissingCredentialsMessage

\* the run has ended on an unusable persisted token and no credentials.json
C5_Witness ==
    /\ pc = "done"
    /\ ~credentials_json
    /\ token_json0 = <<Credentials("cached", FALSE, TRUE, FALSE)>>
    /\ creds = <<>>

\* the batch-update call was made and the document is still empty
BatchRejected ==
    /\ Called("documents.batchUpdate")
    /\ remote_doc = NewDocument

\* C6: a rejected batch ends create_document with the remote error and no
\* return value, after the identifier was printed and with the completion
\* lines unprinted; a run makes at most one create-document call and at most
\* one batch-update call, the latter only after a successful create.
C6_RejectedBatch ==
    /\ Count(calls, "documents.create") <= 1
    /\ Count(calls, "documents.batchUpdate") <= 1
    /\ Called("documents.batchUpdate") =>
          /\ doc_id \in DocIds
          /\ calls[Len(calls) - 1] = "documents.create"
          /\ calls[Len(calls)] = "documents.batchUpdate"
    /\ BatchRejected =>
          /\ pc = "raised"
          /\ exc = "HttpError"
          /\ retval = "unset"
          /\ Printed(<<"Document ID: ", doc_id>>)
          /\ ~Printed(<<"Content inserted and formatted.", "">>)

\* the batch of a created document has been rejected
C6_Witness ==
    /\ pc = "raised"
    /\ exc = "HttpError"
    /\ BatchRejected
    /\ segments # <<>>

====
